---- MODULE Spec2Model ----
(***************************************************************************)
(* GovTrack dashboard core (GovTrackPage): the in-memory record store, the *)
(* simulation ticker and the irregularity-report workflow.                 *)
(*                                                                         *)
(* Amounts are whole pesos.  progress and risk are JavaScript numbers in   *)
(* the source; the model samples every Math.random() draw on a grid that   *)
(* keeps them integral (the grids are the *Draws definitions below).       *)
(* Timestamps are positions of the clock `now`.                            *)
(***************************************************************************)
EXTENDS Integers, Sequences, FiniteSets, TLC

VARIABLES
    projects,                \* useState<Project[]>
    budgets,                 \* useState<Budget[]>
    expenditures,            \* useState<Expenditure[]>, declared without its setter
    callbackAt,              \* position of the interval callback between its two set calls
    timerActive,             \* the interval registered by the simulation effect is live
    now,                     \* Date.now() / new Date()
    showReportModal,         \* useState(false)
    showReportConfirmation,  \* useState(false)
    reportDraft,             \* useState<Partial<IrregularityReport>>
    reports,                 \* useState<IrregularityReport[]>([])
    search,                  \* useState("")
    filterDept,              \* useState("All")
    filterRegion,            \* useState("All")
    filterStatus,            \* useState("All")
    filterCategory,          \* useState("All")
    sortBudgets,             \* useState<SortConfig<Budget>>
    sortProjects,            \* useState<SortConfig<Project>>
    compareSet,              \* useState<Set<string>>(new Set()), in insertion order
    watchlist,               \* useState<Set<string>>(new Set()), in insertion order
    lastExport,              \* the file handed to the browser by the last exportData
    events,                  \* PrivacyAnalytics.events
    preferences              \* PrivacyAnalytics.preferences

vars == <<projects, budgets, expenditures, callbackAt, timerActive, now,
          showReportModal, showReportConfirmation, reportDraft, reports,
          search, filterDept, filterRegion, filterStatus, filterCategory,
          sortBudgets, sortProjects, compareSet, watchlist,
          lastExport, events, preferences>>

storeVars == <<projects, budgets, expenditures>>
analyticsVars == <<events, preferences>>
ambientVars == <<callbackAt, lastExport, analyticsVars>>
reportVars == <<showReportModal, showReportConfirmation, reportDraft, reports>>
filterVars == <<filterDept, filterRegion, filterStatus, filterCategory>>
sortVars == <<sortBudgets, sortProjects>>
queryVars == <<search, filterVars, sortVars>>
selectionVars == <<compareSet, watchlist>>
viewVars == <<queryVars, selectionVars>>
pageVars == <<storeVars, timerActive, now, reportVars>>

(***************************************************************************)
(* Bounds of the model                                                     *)
(***************************************************************************)
MaxRisk == 101      \* ticks that would carry a risk above this value are not explored
MaxClock == 1       \* the clock is advanced at most to this position
MaxReports == 2     \* confirmations explored per run of the workflow
maxEvents == 3      \* private maxEvents = 1000, scaled to the event lists explored

(***************************************************************************)
(* Arithmetic helpers                                                      *)
(***************************************************************************)
Min(a, b) == IF a <= b THEN a ELSE b
Max(a, b) == IF a >= b THEN a ELSE b

\* Math.round(num / den) for num >= 0, den > 0 (ties go up).
Round(num, den) == (2 * num + den) \div (2 * den)

\* Math.round(x * k / den) for x, k >= 0, split so that no product leaves 32 bits:
\* x * k / den = (x \div den) * k + (x % den) * k / den, and the first term is whole.
RoundMul(x, k, den) == (x \div den) * k + Round((x % den) * k, den)

\* clamp without its upper limit
clampNoCeiling(v, min, max) == Max(v, min)

clamp(v, min, max) == Min(Max(v, min), max)

(***************************************************************************)
(* Types                                                                   *)
(***************************************************************************)
Statuses == {"On Track", "Delayed", "Completed", "At Risk"}

(***************************************************************************)
(* Sample data initialisation                                              *)
(***************************************************************************)
SeedBudgets == <<
    [id |-> "b1", department |-> "Health", category |-> "Public Services",
     allocated |-> 50000000, spent |-> 21500000, region |-> "National", lastUpdated |-> 0],
    [id |-> "b2", department |-> "Education", category |-> "Public Services",
     allocated |-> 42000000, spent |-> 28900000, region |-> "National", lastUpdated |-> 0],
    [id |-> "b3", department |-> "Transport", category |-> "Infrastructure",
     allocated |-> 65000000, spent |-> 41200000, region |-> "National", lastUpdated |-> 0],
    [id |-> "b4", department |-> "Agriculture", category |-> "Economic",
     allocated |-> 18000000, spent |-> 9000000, region |-> "Rural", lastUpdated |-> 0],
    [id |-> "b5", department |-> "Energy", category |-> "Infrastructure",
     allocated |-> 30000000, spent |-> 11000000, region |-> "National", lastUpdated |-> 0],
    [id |-> "b6", department |-> "Tourism", category |-> "Economic",
     allocated |-> 8000000, spent |-> 3500000, region |-> "Coastal", lastUpdated |-> 0],
    [id |-> "b7", department |-> "Defense", category |-> "Security",
     allocated |-> 90000000, spent |-> 61000000, region |-> "National", lastUpdated |-> 0],
    [id |-> "b8", department |-> "Justice", category |-> "Security",
     allocated |-> 27000000, spent |-> 14000000, region |-> "National", lastUpdated |-> 0] >>

SeedProjects == <<
    [id |-> "p1", name |-> "Rural Clinic Expansion", department |-> "Health",
     budget |-> 12000000, spent |-> 4600000, status |-> "On Track", progress |-> 39,
     region |-> "Rural", updatedAt |-> 0, risk |-> 25],
    [id |-> "p2", name |-> "Highway Modernization", department |-> "Transport",
     budget |-> 30000000, spent |-> 15800000, status |-> "Delayed", progress |-> 52,
     region |-> "National", updatedAt |-> 0, risk |-> 55],
    [id |-> "p3", name |-> "Digital Classrooms Initiative", department |-> "Education",
     budget |-> 15000000, spent |-> 7200000, status |-> "On Track", progress |-> 47,
     region |-> "National", updatedAt |-> 0, risk |-> 30],
    [id |-> "p4", name |-> "Green Energy Pilot", department |-> "Energy",
     budget |-> 10000000, spent |-> 4800000, status |-> "On Track", progress |-> 49,
     region |-> "National", updatedAt |-> 0, risk |-> 35],
    [id |-> "p5", name |-> "Agri Supply Chain Upgrade", department |-> "Agriculture",
     budget |-> 8000000, spent |-> 2700000, status |-> "At Risk", progress |-> 28,
     region |-> "Rural", updatedAt |-> 0, risk |-> 68],
    [id |-> "p6", name |-> "Judicial Case System", department |-> "Justice",
     budget |-> 6000000, spent |-> 2400000, status |-> "On Track", progress |-> 36,
     region |-> "National", updatedAt |-> 0, risk |-> 40],
    [id |-> "p7", name |-> "Border Security Upgrade", department |-> "Defense",
     budget |-> 22000000, spent |-> 9600000, status |-> "Delayed", progress |-> 44,
     region |-> "National", updatedAt |-> 0, risk |-> 58],
    [id |-> "p8", name |-> "Eco Tourism Campaign", department |-> "Tourism",
     budget |-> 5000000, spent |-> 1700000, status |-> "On Track", progress |-> 34,
     region |-> "Coastal", updatedAt |-> 0, risk |-> 32],
    [id |-> "p9", name |-> "School Nutrition Upgrade", department |-> "Education",
     budget |-> 9000000, spent |-> 3000000, status |-> "On Track", progress |-> 33,
     region |-> "National", updatedAt |-> 0, risk |-> 29] >>

(***************************************************************************)
(* Simulation ticker: the Math.random() draws of one tick                  *)
(***************************************************************************)
\* inc = Math.random() * 4, in [0, 4)
IncDraws == {0, 3}
\* 0.8 + Math.random() * 0.4, in [0.8, 1.2), in hundredths
SpendFactorDraws == {80, 119}
\* Math.random() * 3, in [0, 3): the draw of the Delayed / At Risk branch
RiskGrowDraws == {0, 1, 2}
\* Math.random() * 4 - 2, in [-2, 2): the draw of the other branch
RiskDriftDraws == {-2, -1, 0, 1}
\* the Math.random() of the budget delta, in [0, 1), in hundredths
BudgetDraws == {0, 50, 99}

RiskDraws(p) ==
    IF p.status = "Delayed" \/ p.status = "At Risk" THEN RiskGrowDraws ELSE RiskDriftDraws

\* The draws the callback makes for one project: sel is Math.random() < 0.2.
NoDraw == [sel |-> FALSE, inc |-> 0, factor |-> 80, rd |-> 0]
ProjectDraws(p) ==
    {NoDraw} \cup
    (IF p.progress < 100
     THEN [sel : {TRUE}, inc : IncDraws, factor : SpendFactorDraws, rd : RiskDraws(p)]
     ELSE {[NoDraw EXCEPT !.sel = TRUE]})

\* The draws the callback makes for one budget: sel is Math.random() < 0.15.
NoBudgetDraw == [sel |-> FALSE, u |-> 0]
BudgetDrawsOf(b) == {NoBudgetDraw} \cup [sel : {TRUE}, u : BudgetDraws]

RECURSIVE ProjectDrawSeqs(_)
ProjectDrawSeqs(ps) ==
    IF ps = <<>> THEN {<<>>}
    ELSE {<<d>> \o rest : d \in ProjectDraws(Head(ps)), rest \in ProjectDrawSeqs(Tail(ps))}

RECURSIVE BudgetDrawSeqs(_)
BudgetDrawSeqs(bs) ==
    IF bs = <<>> THEN {<<>>}
    ELSE {<<d>> \o rest : d \in BudgetDrawsOf(Head(bs)), rest \in BudgetDrawSeqs(Tail(bs))}

(***************************************************************************)
(* Simulation ticker: the per-record updates                               *)
(***************************************************************************)
\* Math.round(p.budget * (inc / 100) * (0.8 + Math.random() * 0.4))
ExtraSpend(p, inc, factor) == RoundMul(p.budget, inc * factor, 10000)

\* a progress that stops one point short
NewProgressShort(p, inc) == clamp(p.progress + inc, 0, 99)

NewProgress(p, inc) == clamp(p.progress + inc, 0, 100)

NewProjectSpent(p, extraSpend) == Min(p.budget, p.spent + extraSpend)

\* the completion test one point early
NewStatusEarly(p, inc) == IF p.progress + inc >= 99 THEN "Completed" ELSE p.status

NewStatus(p, inc) == IF p.progress + inc >= 100 THEN "Completed" ELSE p.status

NewRisk(p, rd) ==
    IF p.status = "Delayed" \/ p.status = "At Risk"
    THEN Min(90, p.risk + rd)
    ELSE Max(10, p.risk + rd)

\* a project update without the test on progress
TickProjectUnguarded(p, d, t) ==
    IF d.sel
    THEN [p EXCEPT !.progress = NewProgress(p, d.inc),
                   !.spent = NewProjectSpent(p, ExtraSpend(p, d.inc, d.factor)),
                   !.status = NewStatus(p, d.inc),
                   !.updatedAt = t,
                   !.risk = NewRisk(p, d.rd)]
    ELSE p

\* the body of prev.map((p) => ...) in setProjects
TickProject(p, d, t) ==
    IF d.sel /\ p.progress < 100
    THEN [p EXCEPT !.progress = NewProgress(p, d.inc),
                   !.spent = NewProjectSpent(p, ExtraSpend(p, d.inc, d.factor)),
                   !.status = NewStatus(p, d.inc),
                   !.updatedAt = t,
                   !.risk = NewRisk(p, d.rd)]
    ELSE p

\* Math.round(b.allocated * 0.0005 * Math.random() * 50), with Math.random() = u / 100:
\* 0.0005 * 50 / 100 = 1 / 4000
BudgetDelta(b, u) == RoundMul(b.allocated, u, 4000)

\* b.allocated * 1.15 (the model's allocations are multiples of 20, so this is exact)
SpendCap(b) == (b.allocated \div 20) * 23

\* the budget update without its cap
NewBudgetSpentUncapped(b, delta) == b.spent + delta

NewBudgetSpent(b, delta) == Min(SpendCap(b), b.spent + delta)

\* a budget update that stamps the records it passes over
TickBudgetStamping(b, d, t) ==
    IF d.sel
    THEN [b EXCEPT !.spent = NewBudgetSpent(b, BudgetDelta(b, d.u)),
                   !.lastUpdated = t]
    ELSE [b EXCEPT !.lastUpdated = t]

\* the body of prev.map((b) => ...) in setBudgets
TickBudget(b, d, t) ==
    IF d.sel
    THEN [b EXCEPT !.spent = NewBudgetSpent(b, BudgetDelta(b, d.u)),
                   !.lastUpdated = t]
    ELSE b

(***************************************************************************)
(* Report workflow: drafts and reports                                     *)
(***************************************************************************)
\* a field of Partial<IrregularityReport> that is not set reads as undefined
Absent == "undefined"
\* a key that the defaults passed to openReportModal do not carry
Unset == "(no key)"

\* JavaScript truthiness of a string-or-undefined value: !v is true for undefined and ""
Truthy(v) == v # Absent /\ v # ""

\* v || d
OrElse(v, d) == IF Truthy(v) THEN v ELSE d

\* { severity: "Medium", type: "Spending Concern" }
DefaultDraft ==
    [type |-> "Spending Concern", subject |-> Absent, description |-> Absent,
     department |-> Absent, projectId |-> Absent, severity |-> "Medium",
     reference |-> Absent]

\* { severity: "Medium", type: "Spending Concern", ...defaults }
MergeDefaults(base, defaults) ==
    [type |-> IF defaults.type = Unset THEN base.type ELSE defaults.type,
     subject |-> IF defaults.subject = Unset THEN base.subject ELSE defaults.subject,
     description |-> IF defaults.description = Unset THEN base.description
                     ELSE defaults.description,
     department |-> IF defaults.department = Unset THEN base.department
                    ELSE defaults.department,
     projectId |-> IF defaults.projectId = Unset THEN base.projectId ELSE defaults.projectId,
     severity |-> IF defaults.severity = Unset THEN base.severity ELSE defaults.severity,
     reference |-> IF defaults.reference = Unset THEN base.reference ELSE defaults.reference]

\* the argument of the openReportModal call sites
NoDefaults ==
    [type |-> Unset, subject |-> Unset, description |-> Unset, department |-> Unset,
     projectId |-> Unset, severity |-> Unset, reference |-> Unset]
\* openReportModal(): the "Report" buttons
\* openReportModal({department, subject}): the "Flag" button of a budget row
BudgetFlagDefaults ==
    [NoDefaults EXCEPT !.department = "Health", !.subject = "Budget Concern: Health"]
\* the values the inputs of the report form can put into each draft field
TypeOptions == {"Spending Concern", "Fraud Suspicion"}
SeverityOptions == {"Medium", "High"}
FieldInputs(field) ==
    CASE field = "type" -> TypeOptions
      [] field = "severity" -> SeverityOptions
      [] field = "department" -> {Absent, "Health"}
      [] field = "projectId" -> {Absent, "p1"}
      [] field = "subject" -> {"", "Budget Concern: Health"}
      [] field = "description" -> {"", "Overspend"}
      [] field = "reference" -> {"REF-1"}

RequiredFields == {"subject", "description"}
OptionalFields == {"type", "severity", "department", "projectId", "reference"}

\* a report that is stored as already resolved
NewReportResolved(draft, t) ==
    [id |-> <<"r", t>>,
     type |-> OrElse(draft.type, "Spending Concern"),
     subject |-> draft.subject,
     description |-> draft.description,
     department |-> draft.department,
     projectId |-> draft.projectId,
     severity |-> OrElse(draft.severity, "Medium"),
     status |-> "Resolved",
     reference |-> draft.reference,
     createdAt |-> t]

\* the IrregularityReport built by confirmSubmitReport
NewReport(draft, t) ==
    [id |-> <<"r", t>>,
     type |-> OrElse(draft.type, "Spending Concern"),
     subject |-> draft.subject,
     description |-> draft.description,
     department |-> draft.department,
     projectId |-> draft.projectId,
     severity |-> OrElse(draft.severity, "Medium"),
     status |-> "Submitted",
     reference |-> draft.reference,
     createdAt |-> t]

\* the new report put at the end of the list
AppendReportLast(report, prev) == prev \o <<report>>

\* setReports((prev) => [newReport, ...prev])
AppendReport(report, prev) == <<report>> \o prev

(***************************************************************************)
(* Overview metrics.  A JavaScript number is modelled as a record: a       *)
(* finite value is the exact fraction num / den in lowest terms with       *)
(* den > 0, and NaN, Infinity and -Infinity are values of their own.  0.6  *)
(* and 0.4 are taken as the exact fractions 3/5 and 2/5.                   *)
(***************************************************************************)
RECURSIVE GCD(_, _)
GCD(a, b) == IF b = 0 THEN a ELSE GCD(b, a % b)

\* the number n / d, for d > 0
Finite(n, d) ==
    LET g == GCD(IF n < 0 THEN -n ELSE n, d)
    IN  [kind |-> "finite", num |-> n \div g, den |-> d \div g]
NaN == [kind |-> "NaN", num |-> 0, den |-> 1]
Infinity == [kind |-> "Infinity", num |-> 0, den |-> 1]
NegInfinity == [kind |-> "-Infinity", num |-> 0, den |-> 1]

\* n / d for two whole numbers: division by zero gives NaN or an infinity
Divide(n, d) ==
    IF d = 0
    THEN IF n = 0 THEN NaN ELSE IF n > 0 THEN Infinity ELSE NegInfinity
    ELSE IF d > 0 THEN Finite(n, d) ELSE Finite(-n, -d)

\* x * k for a whole number k > 0
Times(x, k) == IF x.kind = "finite" THEN Finite(x.num * k, x.den) ELSE x

\* x / k for a whole number k >= 0
DivideBy(x, k) ==
    IF x.kind = "finite"
    THEN IF k = 0 THEN Divide(x.num, 0) ELSE Finite(x.num, x.den * k)
    ELSE x

\* x + y
Plus(x, y) ==
    IF x.kind = "NaN" \/ y.kind = "NaN" THEN NaN
    ELSE IF x.kind = "finite" /\ y.kind = "finite"
         THEN Finite(x.num * y.den + y.num * x.den, x.den * y.den)
    ELSE IF x.kind = "finite" THEN y
    ELSE IF y.kind = "finite" \/ y.kind = x.kind THEN x
    ELSE NaN

\* -x
Negate(x) ==
    CASE x.kind = "finite" -> Finite(-x.num, x.den)
      [] x.kind = "Infinity" -> NegInfinity
      [] x.kind = "-Infinity" -> Infinity
      [] OTHER -> NaN

\* Math.abs(x)
MathAbs(x) ==
    CASE x.kind = "finite" -> Finite(IF x.num < 0 THEN -x.num ELSE x.num, x.den)
      [] x.kind = "NaN" -> NaN
      [] OTHER -> Infinity

\* Math.max(0, x) without the comparison: x itself
MathMaxZeroNoFloor(x) == x

\* Math.max(0, x): NaN if x is NaN
MathMaxZero(x) ==
    CASE x.kind = "finite" -> IF x.num < 0 THEN Finite(0, 1) ELSE x
      [] x.kind = "-Infinity" -> Finite(0, 1)
      [] OTHER -> x

\* Math.round(x): the nearest whole number, ties up; NaN and the infinities are kept
MathRound(x) ==
    IF x.kind = "finite" THEN Finite((2 * x.num + x.den) \div (2 * x.den), 1) ELSE x

\* (b.spent / b.allocated) * 100
Utilization(b) == Times(Divide(b.spent, b.allocated), 100)

RECURSIVE SumAllocated(_)
SumAllocated(bs) == IF bs = <<>> THEN 0 ELSE Head(bs).allocated + SumAllocated(Tail(bs))

RECURSIVE SumSpent(_)
SumSpent(bs) == IF bs = <<>> THEN 0 ELSE Head(bs).spent + SumSpent(Tail(bs))

totalAllocated == SumAllocated(budgets)
totalSpent == SumSpent(budgets)
overallUtilization == Times(Divide(totalSpent, totalAllocated), 100)

\* utilizations.reduce((s, u) => s + Math.abs(u - 60), 0)
RECURSIVE SumDeviations(_)
SumDeviations(us) ==
    IF us = <<>> THEN Finite(0, 1)
    ELSE Plus(SumDeviations(SubSeq(us, 1, Len(us) - 1)),
              MathAbs(Plus(us[Len(us)], Finite(-60, 1))))

utilizations == [i \in 1..Len(budgets) |-> Utilization(budgets[i])]
avgDeviation == DivideBy(SumDeviations(utilizations), Len(utilizations))
norm == DivideBy(MathMaxZero(Plus(Finite(100, 1), Negate(avgDeviation))), 100)
resolved == Cardinality({i \in 1..Len(reports) : reports[i].status = "Resolved"})
resolutionRatio == IF Len(reports) # 0 THEN Divide(resolved, Len(reports)) ELSE Finite(1, 2)

\* Math.round((0.6 * norm + 0.4 * resolutionRatio) * 100)
transparencyIndex ==
    MathRound(Times(Plus(DivideBy(Times(norm, 3), 5), DivideBy(Times(resolutionRatio, 2), 5)),
                    100))

(***************************************************************************)
(* Query state                                                             *)
(***************************************************************************)
\* key: null of a SortConfig
NoKey == "null"

(***************************************************************************)
(* Text.  A JavaScript string is a TLA+ string; Chars spells the strings   *)
(* of the stores and of the inputs as sequences of characters, so that     *)
(* toLowerCase, includes, slice and localeCompare work on characters.      *)
(***************************************************************************)
Chars(s) ==
    CASE s = "" -> <<>>
      [] s = "Health" -> <<"H", "e", "a", "l", "t", "h">>
      [] s = "Transport" -> <<"T", "r", "a", "n", "s", "p", "o", "r", "t">>
      [] s = "Public Services" -> <<"P", "u", "b", "l", "i", "c", " ", "S", "e", "r",
            "v", "i", "c", "e", "s">>
      [] s = "Infrastructure" -> <<"I", "n", "f", "r", "a", "s", "t", "r", "u", "c",
            "t", "u", "r", "e">>
      [] s = "National" -> <<"N", "a", "t", "i", "o", "n", "a", "l">>
      [] s = "Rural" -> <<"R", "u", "r", "a", "l">>
      [] s = "Rural Clinic Expansion" -> <<"R", "u", "r", "a", "l", " ", "C", "l", "i",
            "n", "i", "c", " ", "E", "x", "p", "a", "n", "s", "i", "o", "n">>
      [] s = "Highway Modernization" -> <<"H", "i", "g", "h", "w", "a", "y", " ", "M",
            "o", "d", "e", "r", "n", "i", "z", "a", "t", "i", "o", "n">>
      [] s = "School Nutrition Upgrade" -> <<"S", "c", "h", "o", "o", "l", " ", "N",
            "u", "t", "r", "i", "t", "i", "o", "n", " ", "U", "p", "g", "r", "a", "d",
            "e">>
      [] s = "On Track" -> <<"O", "n", " ", "T", "r", "a", "c", "k">>
      [] s = "Delayed" -> <<"D", "e", "l", "a", "y", "e", "d">>
      [] s = "Completed" -> <<"C", "o", "m", "p", "l", "e", "t", "e", "d">>
      [] s = "At Risk" -> <<"A", "t", " ", "R", "i", "s", "k">>
      [] s = "HEAL" -> <<"H", "E", "A", "L">>
      [] s = "heal" -> <<"h", "e", "a", "l">>
      [] s = "in" -> <<"i", "n">>
      [] s = "lab" -> <<"l", "a", "b">>
      [] s = "Labor expense" -> <<"L", "a", "b", "o", "r", " ", "e", "x", "p", "e", "n",
            "s", "e">>
      [] s = "b1" -> <<"b", "1">>
      [] s = "b2" -> <<"b", "2">>
      [] s = "c1" -> <<"c", "1">>
      [] s = "p1" -> <<"p", "1">>
      [] s = "p2" -> <<"p", "2">>

Letters ==
    <<"a", "b", "c", "d", "e", "f", "g", "h", "i", "j", "k", "l", "m",
      "n", "o", "p", "q", "r", "s", "t", "u", "v", "w", "x", "y", "z">>
Capitals ==
    <<"A", "B", "C", "D", "E", "F", "G", "H", "I", "J", "K", "L", "M",
      "N", "O", "P", "Q", "R", "S", "T", "U", "V", "W", "X", "Y", "Z">>

\* one character of toLowerCase()
LowerChar(c) ==
    IF \E i \in 1..Len(Capitals) : Capitals[i] = c
    THEN Letters[CHOOSE i \in 1..Len(Capitals) : Capitals[i] = c]
    ELSE c

\* text.toLowerCase()
ToLowerCase(text) == [i \in 1..Len(text) |-> LowerChar(text[i])]

\* a search that looks at the start of the text only
IncludesAtStart(text, part) ==
    Len(part) <= Len(text) /\ SubSeq(text, 1, Len(part)) = part

\* text.includes(part)
Includes(text, part) ==
    \E i \in 0..(Len(text) - Len(part)) : SubSeq(text, i + 1, i + Len(part)) = part

\* the order of localeCompare on the characters of the model: the space, the digits,
\* then the letters, a letter and its capital at the same place
CollationOrder == <<" ", "0", "1", "2", "3", "4", "5", "6", "7", "8", "9">> \o Letters
CollationRank(c) == CHOOSE i \in 1..Len(CollationOrder) : CollationOrder[i] = LowerChar(c)

\* the first difference in letters, whatever the case: -1, 0 or 1
RECURSIVE CompareLetters(_, _)
CompareLetters(a, b) ==
    IF a = <<>> THEN (IF b = <<>> THEN 0 ELSE -1)
    ELSE IF b = <<>> THEN 1
    ELSE IF CollationRank(Head(a)) < CollationRank(Head(b)) THEN -1
    ELSE IF CollationRank(Head(a)) > CollationRank(Head(b)) THEN 1
    ELSE CompareLetters(Tail(a), Tail(b))

\* the first difference in case, for texts with the same letters: lower case first
RECURSIVE CompareCase(_, _)
CompareCase(a, b) ==
    IF a = <<>> THEN 0
    ELSE IF Head(a) = Head(b) THEN CompareCase(Tail(a), Tail(b))
    ELSE IF LowerChar(Head(a)) = Head(a) THEN -1 ELSE 1

\* a.localeCompare(b)
LocaleCompare(a, b) ==
    IF CompareLetters(a, b) # 0 THEN CompareLetters(a, b) ELSE CompareCase(a, b)

(***************************************************************************)
(* Query pipeline                                                          *)
(***************************************************************************)
\* the fields of Budget and Project that hold a number
NumberFields == {"allocated", "spent", "budget", "progress", "risk"}

\* typeof a[k] === "number": the type of a field is fixed by the interfaces
IsNumber(record, k) == k \in NumberFields

\* the comparator handed to data.sort
Compare(a, b, sort) ==
    LET av == a[sort.key]
        bv == b[sort.key]
    IN  IF IsNumber(a, sort.key) /\ IsNumber(b, sort.key)
        THEN IF sort.direction = "asc" THEN av - bv ELSE bv - av
        ELSE LocaleCompare(Chars(av), Chars(bv)) * (IF sort.direction = "asc" THEN 1 ELSE -1)

\* an insertion that puts x in front of the records it ties with
InsertSortedBeforeTies(x, s, sort) ==
    LET before == {i \in 1..Len(s) : Compare(s[i], x, sort) < 0}
        k == IF before = {} THEN 0 ELSE CHOOSE i \in before : \A j \in before : j <= i
    IN  SubSeq(s, 1, k) \o <<x>> \o SubSeq(s, k + 1, Len(s))

\* Array.prototype.sort is stable: x, which comes after the records of s in the input,
\* goes behind every record that does not compare greater than it
InsertSorted(x, s, sort) ==
    LET before == {i \in 1..Len(s) : Compare(s[i], x, sort) <= 0}
        k == IF before = {} THEN 0 ELSE CHOOSE i \in before : \A j \in before : j <= i
    IN  SubSeq(s, 1, k) \o <<x>> \o SubSeq(s, k + 1, Len(s))

RECURSIVE SortFrom(_, _)
SortFrom(data, sort) ==
    IF data = <<>> THEN <<>>
    ELSE InsertSorted(data[Len(data)], SortFrom(SubSeq(data, 1, Len(data) - 1), sort), sort)

\* a sort that reads its input back to front
SortDataBackwards(data, sort) ==
    SortFrom([i \in 1..Len(data) |-> data[Len(data) + 1 - i]], sort)

\* data.sort((a, b) => ...)
SortData(data, sort) == SortFrom(data, sort)

\* the search and the filters of filteredBudgets
BudgetFilters(data) ==
    LET needle == ToLowerCase(Chars(search))
        BySearch(b) == \/ Includes(ToLowerCase(Chars(b.department)), needle)
                       \/ Includes(ToLowerCase(Chars(b.category)), needle)
        ByDept(b) == b.department = filterDept
        ByRegion(b) == b.region = filterRegion
        ByCategory(b) == b.category = filterCategory
        d1 == IF search # "" THEN SelectSeq(data, BySearch) ELSE data
        d2 == IF filterDept # "All" THEN SelectSeq(d1, ByDept) ELSE d1
        d3 == IF filterRegion # "All" THEN SelectSeq(d2, ByRegion) ELSE d2
    IN  IF filterCategory # "All" THEN SelectSeq(d3, ByCategory) ELSE d3

\* the body of the filteredBudgets memo, run on data
BudgetPipeline(data) ==
    IF sortBudgets.key # NoKey
    THEN SortData(BudgetFilters(data), sortBudgets)
    ELSE BudgetFilters(data)

filteredBudgets == BudgetPipeline(budgets)

\* the search and the filters of filteredProjects
ProjectFilters(data) ==
    LET needle == ToLowerCase(Chars(search))
        BySearch(p) == \/ Includes(ToLowerCase(Chars(p.name)), needle)
                       \/ Includes(ToLowerCase(Chars(p.department)), needle)
        ByDept(p) == p.department = filterDept
        ByRegion(p) == p.region = filterRegion
        ByStatus(p) == p.status = filterStatus
        d1 == IF search # "" THEN SelectSeq(data, BySearch) ELSE data
        d2 == IF filterDept # "All" THEN SelectSeq(d1, ByDept) ELSE d1
        d3 == IF filterRegion # "All" THEN SelectSeq(d2, ByRegion) ELSE d2
    IN  IF filterStatus # "All" THEN SelectSeq(d3, ByStatus) ELSE d3

\* the body of the filteredProjects memo, run on data
ProjectPipeline(data) ==
    IF sortProjects.key # NoKey
    THEN SortData(ProjectFilters(data), sortProjects)
    ELSE ProjectFilters(data)

filteredProjects == ProjectPipeline(projects)

(***************************************************************************)
(* Expenditures.  An identifier p.id + "-tx" + i is the tuple of its       *)
(* parts; a date is a position of the clock.                               *)
(***************************************************************************)
\* const cats = [...]
cats == <<"Procurement", "Labor", "Logistics", "Training", "Consulting">>

\* `${cats[i]} expense`
ExpenseDescription(cat) ==
    CASE cat = "Procurement" -> "Procurement expense"
      [] cat = "Labor" -> "Labor expense"
      [] cat = "Logistics" -> "Logistics expense"
      [] cat = "Training" -> "Training expense"
      [] cat = "Consulting" -> "Consulting expense"

\* the initializer of useState<Expenditure[]>: three entries per project; extra is
\* the draw of Math.round(Math.random() * 200000) and age the draw of
\* Math.random() * 1e9 in the unit of the clock
SeedExpenditures(ps, extra, age, t) ==
    [n \in 1..(3 * Len(ps)) |->
        LET p == ps[((n - 1) \div 3) + 1]
            i == (n - 1) % 3
        IN  [id |-> <<p.id, "-tx", i>>, projectId |-> p.id, department |-> p.department,
             description |-> ExpenseDescription(cats[i + 1]), amount |-> extra + 20000,
             date |-> t - age, category |-> cats[i + 1]]]

\* a region filter that asks every expenditure for a project of the region
ExpenditureFiltersStrict(data) ==
    LET needle == ToLowerCase(Chars(search))
        BySearch(e) == \/ Includes(ToLowerCase(Chars(e.description)), needle)
                       \/ Includes(ToLowerCase(Chars(e.department)), needle)
        ByDept(e) == e.department = filterDept
        regionProjects ==
            {projects[i].id : i \in {j \in 1..Len(projects) : projects[j].region = filterRegion}}
        ByRegion(e) == e.projectId \in regionProjects
        ByCategory(e) == e.category = filterCategory
        d1 == IF search # "" THEN SelectSeq(data, BySearch) ELSE data
        d2 == IF filterDept # "All" THEN SelectSeq(d1, ByDept) ELSE d1
        d3 == IF filterRegion # "All" THEN SelectSeq(d2, ByRegion) ELSE d2
    IN  IF filterCategory # "All" THEN SelectSeq(d3, ByCategory) ELSE d3

\* the search and the filters of filteredExpenditures
ExpenditureFilters(data) ==
    LET needle == ToLowerCase(Chars(search))
        BySearch(e) == \/ Includes(ToLowerCase(Chars(e.description)), needle)
                       \/ Includes(ToLowerCase(Chars(e.department)), needle)
        ByDept(e) == e.department = filterDept
        regionProjects ==
            {projects[i].id : i \in {j \in 1..Len(projects) : projects[j].region = filterRegion}}
        ByRegion(e) == ~Truthy(e.projectId) \/ e.projectId \in regionProjects
        ByCategory(e) == e.category = filterCategory
        d1 == IF search # "" THEN SelectSeq(data, BySearch) ELSE data
        d2 == IF filterDept # "All" THEN SelectSeq(d1, ByDept) ELSE d1
        d3 == IF filterRegion # "All" THEN SelectSeq(d2, ByRegion) ELSE d2
    IN  IF filterCategory # "All" THEN SelectSeq(d3, ByCategory) ELSE d3

\* (a, b) => new Date(b.date).getTime() - new Date(a.date).getTime()
CompareDates(a, b) == b.date - a.date

\* the stable insertion of Array.prototype.sort under CompareDates
InsertByDate(x, s) ==
    LET before == {i \in 1..Len(s) : CompareDates(s[i], x) <= 0}
        k == IF before = {} THEN 0 ELSE CHOOSE i \in before : \A j \in before : j <= i
    IN  SubSeq(s, 1, k) \o <<x>> \o SubSeq(s, k + 1, Len(s))

RECURSIVE SortByDate(_)
SortByDate(data) ==
    IF data = <<>> THEN <<>>
    ELSE InsertByDate(data[Len(data)], SortByDate(SubSeq(data, 1, Len(data) - 1)))

\* the body of the filteredExpenditures memo
filteredExpenditures == SortByDate(ExpenditureFilters(expenditures))

(***************************************************************************)
(* Actions                                                                 *)
(***************************************************************************)
\* a callback that outlives clearInterval
TickAlways == TRUE

\* the interval callback runs only while the interval is registered
TickEnabled == timerActive

\* setInterval(() => { setProjects(...); setBudgets(...); }, 5000)
Tick ==
    /\ TickEnabled
    /\ callbackAt = "idle"
    /\ \E pd \in ProjectDrawSeqs(projects), bd \in BudgetDrawSeqs(budgets) :
         /\ projects' = [i \in 1..Len(projects) |-> TickProject(projects[i], pd[i], now)]
         /\ budgets' = [i \in 1..Len(budgets) |-> TickBudget(budgets[i], bd[i], now)]
    /\ \A i \in 1..Len(projects) : projects'[i].risk <= MaxRisk
    /\ UNCHANGED <<ambientVars, expenditures, timerActive, now, reportVars, viewVars>>

\* return () => clearInterval(id): the effect cleanup, run when the page unmounts
Unmount ==
    /\ timerActive
    /\ callbackAt = "idle"
    /\ timerActive' = FALSE
    /\ UNCHANGED <<ambientVars, viewVars, storeVars, now, reportVars>>

\* an opening of the form that goes straight to the confirmation
OpenReportModalPending(defaults) ==
    /\ reportDraft' = MergeDefaults(DefaultDraft, defaults)
    /\ showReportModal' = TRUE
    /\ showReportConfirmation' = TRUE
    /\ UNCHANGED <<ambientVars, viewVars, storeVars, timerActive, now, reports>>

\* openReportModal(defaults)
OpenReportModal(defaults) ==
    /\ reportDraft' = MergeDefaults(DefaultDraft, defaults)
    /\ showReportModal' = TRUE
    /\ UNCHANGED <<ambientVars, viewVars, storeVars, timerActive, now,
                   showReportConfirmation, reports>>

\* onChange of an input of the report form: setReportDraft((r) => ({ ...r, [field]: value }))
EditDraft(field, value) ==
    /\ showReportModal
    /\ reportDraft' = [reportDraft EXCEPT ![field] = value]
    /\ UNCHANGED <<ambientVars, viewVars, storeVars, timerActive, now, showReportModal,
                   showReportConfirmation, reports>>

\* onClose / Cancel of the report modal: setShowReportModal(false)
CloseReportModal ==
    /\ showReportModal
    /\ showReportModal' = FALSE
    /\ UNCHANGED <<ambientVars, viewVars, storeVars, timerActive, now, showReportConfirmation,
                   reportDraft, reports>>

\* a validation that forgets the description
SubmitAllowedSubjectOnly(draft) == Truthy(draft.subject)

\* the validation of submitReport
SubmitAllowed(draft) == Truthy(draft.subject) /\ Truthy(draft.description)

\* submitReport: the Submit button and the form's onSubmit
SubmitReport ==
    /\ showReportModal
    /\ IF SubmitAllowed(reportDraft)
       THEN showReportConfirmation' = TRUE
       ELSE UNCHANGED showReportConfirmation
    /\ UNCHANGED <<ambientVars, viewVars, storeVars, timerActive, now,
                   showReportModal, reportDraft, reports>>

\* a confirmation that stores the new report in place of the earlier ones
ConfirmSubmitReportReplacing ==
    /\ showReportConfirmation
    /\ reports' = <<NewReport(reportDraft, now)>>
    /\ showReportModal' = FALSE
    /\ showReportConfirmation' = FALSE
    /\ reportDraft' = DefaultDraft
    /\ UNCHANGED <<ambientVars, viewVars, storeVars, timerActive, now>>

\* confirmSubmitReport: "Yes, Submit Report" in the confirmation modal
ConfirmSubmitReport ==
    /\ showReportConfirmation
    /\ reports' = AppendReport(NewReport(reportDraft, now), reports)
    /\ showReportModal' = FALSE
    /\ showReportConfirmation' = FALSE
    /\ reportDraft' = DefaultDraft
    /\ UNCHANGED <<ambientVars, viewVars, storeVars, timerActive, now>>

\* a cancel that also clears the draft
CancelSubmitReportClearing ==
    /\ showReportConfirmation
    /\ showReportConfirmation' = FALSE
    /\ reportDraft' = DefaultDraft
    /\ UNCHANGED <<ambientVars, viewVars, storeVars, timerActive, now,
                   showReportModal, reports>>

\* cancelSubmitReport: onClose / Cancel of the confirmation modal
CancelSubmitReport ==
    /\ showReportConfirmation
    /\ showReportConfirmation' = FALSE
    /\ UNCHANGED <<ambientVars, viewVars, storeVars, timerActive, now,
                   showReportModal, reportDraft, reports>>

\* Date.now() has moved on between two events
AdvanceClock ==
    /\ now < MaxClock
    /\ now' = now + 1
    /\ UNCHANGED <<ambientVars, storeVars, timerActive, reportVars, viewVars>>

\* onChange of the search box: setSearch(e.target.value); its Clear button: setSearch("")
SetSearch(text) ==
    /\ search' = text
    /\ UNCHANGED <<ambientVars, filterVars, sortVars, selectionVars, pageVars>>

\* onChange of the Department select
SetFilterDept(v) ==
    /\ filterDept' = v
    /\ UNCHANGED <<ambientVars, search, filterRegion, filterStatus, filterCategory, sortVars,
                   selectionVars, pageVars>>

\* onChange of the Region select
SetFilterRegion(v) ==
    /\ filterRegion' = v
    /\ UNCHANGED <<ambientVars, search, filterDept, filterStatus, filterCategory, sortVars,
                   selectionVars, pageVars>>

\* onChange of the Status select
SetFilterStatus(v) ==
    /\ filterStatus' = v
    /\ UNCHANGED <<ambientVars, search, filterDept, filterRegion, filterCategory, sortVars,
                   selectionVars, pageVars>>

\* onChange of the Category select
SetFilterCategory(v) ==
    /\ filterCategory' = v
    /\ UNCHANGED <<ambientVars, search, filterDept, filterRegion, filterStatus, sortVars,
                   selectionVars, pageVars>>

\* the Reset button of the filter bar
ResetFilters ==
    /\ filterDept' = "All"
    /\ filterRegion' = "All"
    /\ filterStatus' = "All"
    /\ filterCategory' = "All"
    /\ search' = ""
    /\ UNCHANGED <<ambientVars, sortVars, selectionVars, pageVars>>

\* the updater of handleSortBudgets and handleSortProjects
NextSort(prev, key) ==
    IF prev.key = key
    THEN [key |-> key, direction |-> IF prev.direction = "asc" THEN "desc" ELSE "asc"]
    ELSE [key |-> key, direction |-> "asc"]

\* handleSortBudgets(key): a click on a column header of the budgets table
HandleSortBudgets(key) ==
    /\ sortBudgets' = NextSort(sortBudgets, key)
    /\ UNCHANGED <<ambientVars, search, filterVars, sortProjects, selectionVars,
                   pageVars>>

\* handleSortProjects(key): a click on a column header of the projects table
HandleSortProjects(key) ==
    /\ sortProjects' = NextSort(sortProjects, key)
    /\ UNCHANGED <<ambientVars, search, filterVars, sortBudgets, selectionVars, pageVars>>

\* A JavaScript Set keeps its members in insertion order: it is modelled as a sequence
\* without repetitions, and Members is the set of its members.
Members(set) == {set[i] : i \in 1..Len(set)}

\* a toggle that only ever adds
ToggleAddOnly(prev, id) == IF id \in Members(prev) THEN prev ELSE Append(prev, id)

\* the updater of addOrRemoveCompare and of toggleWatch:
\* const n = new Set(prev); if (n.has(id)) n.delete(id); else n.add(id); return n
Toggle(prev, id) ==
    LET Other(member) == member # id
    IN  IF id \in Members(prev) THEN SelectSeq(prev, Other) ELSE Append(prev, id)

\* addOrRemoveCompare(id)
AddOrRemoveCompare(id) ==
    /\ compareSet' = Toggle(compareSet, id)
    /\ UNCHANGED <<ambientVars, queryVars, watchlist, pageVars>>

\* the "Clear" buttons of the compare panel: setCompareSet(new Set())
ClearCompare ==
    /\ compareSet' = <<>>
    /\ UNCHANGED <<ambientVars, queryVars, watchlist, pageVars>>

\* budgets.find((b) => "b" + b.id.slice(1) === id || b.id === id)
BudgetMatches(b, id) ==
    \/ <<"b">> \o SubSeq(Chars(b.id), 2, Len(Chars(b.id))) = Chars(id)
    \/ b.id = id

\* projects.find((p) => p.id === id)
ProjectMatches(p, id) == p.id = id

\* budgets.find(...) || projects.find(...), then .filter(Boolean): the first Budget that
\* matches, else the first Project that matches, else nothing
Resolve(id) ==
    LET bs == {i \in 1..Len(budgets) : BudgetMatches(budgets[i], id)}
        ps == {i \in 1..Len(projects) : ProjectMatches(projects[i], id)}
    IN  IF bs # {} THEN <<budgets[CHOOSE i \in bs : \A j \in bs : i <= j]>>
        ELSE IF ps # {} THEN <<projects[CHOOSE i \in ps : \A j \in ps : i <= j]>>
        ELSE <<>>

RECURSIVE ResolveAll(_)
ResolveAll(ids) == IF ids = <<>> THEN <<>> ELSE Resolve(Head(ids)) \o ResolveAll(Tail(ids))

\* Array.from(compareSet).map(...).filter(Boolean)
compareItems == ResolveAll(compareSet)

\* "budget-" + b.id and "project-" + p.id, the identifiers the rows pass to toggleWatch
WatchId(kind, id) == <<kind, id>>

\* toggleWatch(id)
ToggleWatch(id) ==
    /\ watchlist' = Toggle(watchlist, id)
    /\ UNCHANGED <<ambientVars, queryVars, compareSet, pageVars>>

\* no file has been handed to the browser yet
NoExport == [download |-> Absent, data |-> <<>>]

\* an export that takes the exported records out of the store
ExportDataTaking(type) ==
    /\ lastExport' = [download |-> type,
                      data |-> IF type = "budgets" THEN filteredBudgets ELSE filteredProjects]
    /\ budgets' = IF type = "budgets" THEN <<>> ELSE budgets
    /\ projects' = IF type = "projects" THEN <<>> ELSE projects
    /\ UNCHANGED <<expenditures, timerActive, now, reportVars, callbackAt, analyticsVars,
                   viewVars>>

\* exportData(type): the records of the filtered view, which JSON.stringify writes out
\* field by field in view order, go to the file `${type}-export.json`
ExportData(type) ==
    /\ lastExport' = [download |-> type,
                      data |-> IF type = "budgets" THEN filteredBudgets ELSE filteredProjects]
    /\ UNCHANGED <<callbackAt, analyticsVars, viewVars, pageVars>>

\* the setProjects call of the interval callback, when React renders after each set
\* call of a timer callback instead of batching the two
TickSetProjects ==
    /\ TickEnabled
    /\ callbackAt = "idle"
    /\ \E pd \in ProjectDrawSeqs(projects) :
         projects' = [i \in 1..Len(projects) |-> TickProject(projects[i], pd[i], now)]
    /\ \A i \in 1..Len(projects) : projects'[i].risk <= MaxRisk
    /\ callbackAt' = "afterSetProjects"
    /\ UNCHANGED <<budgets, expenditures, lastExport, analyticsVars, timerActive, now,
                   reportVars, viewVars>>

\* the setBudgets call that follows it in the same run of the callback
TickSetBudgets ==
    /\ callbackAt = "afterSetProjects"
    /\ \E bd \in BudgetDrawSeqs(budgets) :
         budgets' = [i \in 1..Len(budgets) |-> TickBudget(budgets[i], bd[i], now)]
    /\ callbackAt' = "idle"
    /\ UNCHANGED <<projects, expenditures, lastExport, analyticsVars, timerActive, now,
                   reportVars, viewVars>>

(***************************************************************************)
(* PrivacyAnalytics.  An event is its type and its timestamp; one position *)
(* of the clock is one day, the unit of dataRetentionDays.                 *)
(***************************************************************************)
\* the preferences returned by loadPreferences when nothing is saved
DefaultPreferences == [analyticsEnabled |-> TRUE, dataRetentionDays |-> 30]

\* cleanupOldEvents() at time t
cleanupOldEvents(evs, prefs, t) ==
    LET cutoffTime == t - prefs.dataRetentionDays
        Fresh(event) == event.timestamp > cutoffTime
        kept == SelectSeq(evs, Fresh)
    IN  IF Len(kept) > maxEvents
        THEN SubSeq(kept, Len(kept) - maxEvents + 1, Len(kept))
        ELSE kept

\* this.events.push(event); this.cleanupOldEvents()
PushEvent(evs, prefs, type, t) ==
    cleanupOldEvents(Append(evs, [type |-> type, timestamp |-> t]), prefs, t)

\* a track that records whatever the preferences say
TrackUnguarded(type) ==
    /\ events' = PushEvent(events, preferences, type, now)
    /\ UNCHANGED <<preferences, callbackAt, lastExport, viewVars, pageVars>>

\* track(type, data)
Track(type) ==
    /\ events' = IF ~preferences.analyticsEnabled THEN events
                 ELSE PushEvent(events, preferences, type, now)
    /\ UNCHANGED <<preferences, callbackAt, lastExport, viewVars, pageVars>>

\* { ...this.preferences, ...preferences }
MergePreferences(current, partial) ==
    [k \in DOMAIN current |-> IF k \in DOMAIN partial THEN partial[k] ELSE current[k]]

\* setPreferences(preferences)
SetPreferences(partial) ==
    /\ preferences' = MergePreferences(preferences, partial)
    /\ events' = IF ~preferences'.analyticsEnabled THEN <<>> ELSE events
    /\ UNCHANGED <<callbackAt, lastExport, viewVars, pageVars>>

\* clearAllData()
ClearAllData ==
    /\ events' = <<>>
    /\ UNCHANGED <<preferences, callbackAt, lastExport, viewVars, pageVars>>

\* what the mounted page adds to its useState calls: the seeded expenditures, the
\* interval callback before its first run, no export, and the analytics singleton
\* after usePageTracking("overview")
InitAmbient ==
    /\ expenditures = SeedExpenditures(projects, 0, 0, 0)
    /\ callbackAt = "idle"
    /\ lastExport = NoExport
    /\ preferences = DefaultPreferences
    /\ events = PushEvent(<<>>, DefaultPreferences, "page_view", 0)

(***************************************************************************)
(* Specification of the seeded store.  prev.map updates every record on    *)
(* its own, from its own fields and its own draws, so the store is         *)
(* followed one seeded project at a time.                                  *)
(***************************************************************************)
\* the initial values of the useState calls of the query and selection state
InitView ==
    /\ search = ""
    /\ filterDept = "All"
    /\ filterRegion = "All"
    /\ filterStatus = "All"
    /\ filterCategory = "All"
    /\ sortBudgets = [key |-> NoKey, direction |-> "asc"]
    /\ sortProjects = [key |-> NoKey, direction |-> "asc"]
    /\ compareSet = <<>>
    /\ watchlist = <<>>

InitUI ==
    /\ InitView
    /\ timerActive = TRUE
    /\ now = 0
    /\ showReportModal = FALSE
    /\ showReportConfirmation = FALSE
    /\ reportDraft = DefaultDraft
    /\ reports = <<>>
    /\ InitAmbient

Init ==
    /\ \E i \in 1..Len(SeedProjects) : projects = <<SeedProjects[i]>>
    /\ budgets = <<>>
    /\ InitUI

Next == Tick \/ Unmount

Spec == Init /\ [][Next]_vars

(***************************************************************************)
(* Specification over the data model: the store holds a Project or a       *)
(* Budget with any field values the types and their stated invariants      *)
(* allow (budget > 0, allocated > 0, spent >= 0 and possibly above the     *)
(* budget or the allocation, Completed only at progress 100), the page has *)
(* been up for some time, and the ticker runs on it.  As in Spec, records  *)
(* are followed one at a time.                                             *)
(***************************************************************************)
DataProjects ==
    {p \in [id : {"p1"}, name : {"Rural Clinic Expansion"}, department : {"Health"},
            budget : {100}, spent : {0, 95, 130}, status : Statuses,
            progress : {95, 97, 100}, region : {"Rural"}, updatedAt : {0},
            risk : {0, 89, 100}] :
        p.status = "Completed" => p.progress >= 100}

DataBudgets ==
    [id : {"b1"}, department : {"Health"}, category : {"Public Services"},
     allocated : {40, 100}, spent : {0, 44, 113, 120}, region : {"National"},
     lastUpdated : {0}]

InitData ==
    /\ \/ (\E p \in DataProjects : projects = <<p>>) /\ budgets = <<>>
       \/ projects = <<>> /\ (\E b \in DataBudgets : budgets = <<b>>)
    /\ timerActive = TRUE
    /\ now \in 0..MaxClock
    /\ showReportModal = FALSE
    /\ showReportConfirmation = FALSE
    /\ reportDraft = DefaultDraft
    /\ reports = <<>>
    /\ InitView
    /\ InitAmbient

NextData == Tick \/ Unmount

SpecData == InitData /\ [][NextData]_vars

(***************************************************************************)
(* Specification of the report workflow on the seeded page: the form is    *)
(* opened from the "Report" buttons or from a budget's "Flag" button, its  *)
(* required fields are typed and cleared, and reports are submitted.       *)
(***************************************************************************)
InitReport ==
    /\ projects = SeedProjects
    /\ budgets = SeedBudgets
    /\ InitUI

NextReport ==
    \/ \E d \in {NoDefaults, BudgetFlagDefaults} : OpenReportModal(d)
    \/ \E f \in RequiredFields : \E v \in FieldInputs(f) : EditDraft(f, v)
    \/ CloseReportModal
    \/ SubmitReport
    \/ Len(reports) < MaxReports /\ ConfirmSubmitReport
    \/ CancelSubmitReport

SpecReport == InitReport /\ [][NextReport]_vars

(***************************************************************************)
(* Specification of the report form with all its fields: one report is     *)
(* already stored, every optional field is edited, the required fields are *)
(* typed but not cleared, and the next report is submitted.                *)
(***************************************************************************)
StoredReport ==
    NewReport([MergeDefaults(DefaultDraft, BudgetFlagDefaults)
                   EXCEPT !.description = "Overspend"], 0)

InitForm ==
    /\ projects = SeedProjects
    /\ budgets = SeedBudgets
    /\ timerActive = TRUE
    /\ now = 0
    /\ showReportModal = FALSE
    /\ showReportConfirmation = FALSE
    /\ reportDraft = DefaultDraft
    /\ reports = <<StoredReport>>
    /\ InitView
    /\ InitAmbient

NextForm ==
    \/ \E d \in {NoDefaults, BudgetFlagDefaults} : OpenReportModal(d)
    \/ \E f \in OptionalFields : \E v \in FieldInputs(f) : EditDraft(f, v)
    \/ \E f \in RequiredFields : \E v \in {w \in FieldInputs(f) : Truthy(w)} : EditDraft(f, v)
    \/ CloseReportModal
    \/ SubmitReport
    \/ reports = <<StoredReport>> /\ ConfirmSubmitReport
    \/ CancelSubmitReport

SpecForm == InitForm /\ [][NextForm]_vars

(***************************************************************************)
(* Specification of the whole page on a small store: one Budget of the     *)
(* data model and one completed Project, with the ticker, the report       *)
(* workflow from a budget's "Flag" button, the compare and watch toggles   *)
(* and the search, filter and sort controls all running together.          *)
(***************************************************************************)
PageBudgets(id) ==
    {b \in [id : {id}, department : {"Health"}, category : {"Public Services"},
            allocated : {40, 100}, spent : {24, 44, 113, 120}, region : {"National"},
            lastUpdated : {0}] :
        b.allocated = 100 => b.spent >= 113}

PageProject ==
    [id |-> "p1", name |-> "Rural Clinic Expansion", department |-> "Health",
     budget |-> 100, spent |-> 100, status |-> "Completed", progress |-> 100,
     region |-> "Rural", updatedAt |-> 0, risk |-> 25]

InitPage ==
    /\ \E b \in PageBudgets("b1") : budgets = <<b>>
    /\ projects = <<PageProject>>
    /\ InitUI

NextPage ==
    \/ Tick
    \/ Unmount
    \/ OpenReportModal(BudgetFlagDefaults)
    \/ EditDraft("description", "Overspend")
    \/ CloseReportModal
    \/ SubmitReport
    \/ Len(reports) < MaxReports /\ ConfirmSubmitReport
    \/ CancelSubmitReport
    \/ \E i \in 1..Len(budgets) : AddOrRemoveCompare(budgets[i].id)
    \/ \E i \in 1..Len(projects) : ToggleWatch(WatchId("project-", projects[i].id))
    \/ \E text \in {"", "heal"} : SetSearch(text)
    \/ \E v \in {"All", "Health"} : SetFilterDept(v)
    \/ ResetFilters
    \/ HandleSortBudgets("spent")

SpecPage == InitPage /\ [][NextPage]_vars

(***************************************************************************)
(* Specification of the report workflow with a moving clock: reports are   *)
(* submitted from a budget's "Flag" button on the seeded page while        *)
(* Date.now() advances between some events and not between others.         *)
(***************************************************************************)
NextClock ==
    \/ AdvanceClock
    \/ OpenReportModal(BudgetFlagDefaults)
    \/ \E v \in FieldInputs("description") : EditDraft("description", v)
    \/ CloseReportModal
    \/ SubmitReport
    \/ Len(reports) < MaxReports /\ ConfirmSubmitReport
    \/ CancelSubmitReport

SpecClock == InitReport /\ [][NextClock]_vars

(***************************************************************************)
(* Specification of the transparency index on the running page: the store  *)
(* holds one or two Budgets of the data model, the ticker runs on them and *)
(* reports are submitted from a budget's "Flag" button.                    *)
(***************************************************************************)
InitIndex ==
    /\ \/ \E b \in PageBudgets("b1") : budgets = <<b>>
       \/ \E b \in PageBudgets("b1"), c \in PageBudgets("b2") : budgets = <<b, c>>
    /\ projects = <<>>
    /\ InitUI

NextIndex ==
    \/ Tick
    \/ Unmount
    \/ OpenReportModal(BudgetFlagDefaults)
    \/ EditDraft("description", "Overspend")
    \/ CloseReportModal
    \/ SubmitReport
    \/ Len(reports) < MaxReports /\ ConfirmSubmitReport
    \/ CancelSubmitReport

SpecIndex == InitIndex /\ [][NextIndex]_vars

(***************************************************************************)
(* Specification of the overview metrics over Budgets with any allocation, *)
(* the malformed ones (allocated <= 0) included: the store holds one or    *)
(* two such Budgets and the ticker runs on them.                           *)
(***************************************************************************)
MetricBudgets(id) ==
    [id : {id}, department : {"Health"}, category : {"Public Services"},
     allocated : {-20, 0, 40}, spent : {0, 24, 44}, region : {"National"},
     lastUpdated : {0}]

InitMetrics ==
    /\ \/ \E b \in MetricBudgets("b1") : budgets = <<b>>
       \/ \E b \in MetricBudgets("b1"), c \in MetricBudgets("b2") : budgets = <<b, c>>
    /\ projects = <<>>
    /\ InitUI

NextMetrics == Tick \/ Unmount

SpecMetrics == InitMetrics /\ [][NextMetrics]_vars

(***************************************************************************)
(* Specification of the query pipeline: the stores hold three Budgets and  *)
(* three Projects of the data model in any order, with ties on every sort  *)
(* key, and the search box, the filter selects and the column headers are  *)
(* used in any order.                                                      *)
(***************************************************************************)
QueryBudgets == <<
    [id |-> "b1", department |-> "Health", category |-> "Public Services",
     allocated |-> 100, spent |-> 40, region |-> "National", lastUpdated |-> 0],
    [id |-> "b2", department |-> "Health", category |-> "Infrastructure",
     allocated |-> 100, spent |-> 60, region |-> "Rural", lastUpdated |-> 0],
    [id |-> "b3", department |-> "Transport", category |-> "Infrastructure",
     allocated |-> 60, spent |-> 40, region |-> "National", lastUpdated |-> 0] >>

QueryProjects == <<
    [id |-> "p1", name |-> "Rural Clinic Expansion", department |-> "Health",
     budget |-> 120, spent |-> 46, status |-> "On Track", progress |-> 39,
     region |-> "Rural", updatedAt |-> 0, risk |-> 25],
    [id |-> "p2", name |-> "Highway Modernization", department |-> "Transport",
     budget |-> 300, spent |-> 46, status |-> "Delayed", progress |-> 52,
     region |-> "National", updatedAt |-> 0, risk |-> 55],
    [id |-> "p3", name |-> "School Nutrition Upgrade", department |-> "Health",
     budget |-> 120, spent |-> 30, status |-> "On Track", progress |-> 33,
     region |-> "National", updatedAt |-> 0, risk |-> 29] >>

\* the orders in which three records can be stored
Orders == {o \in [1..3 -> 1..3] : \A i, j \in 1..3 : i # j => o[i] # o[j]}

SearchInputs == {"", "HEAL", "in"}
BudgetSortKeys == {"department", "category", "allocated", "spent"}
ProjectSortKeys == {"name", "department", "budget", "spent"}

InitQuery ==
    /\ \E o \in Orders :
         /\ budgets = [i \in 1..3 |-> QueryBudgets[o[i]]]
         /\ projects = [i \in 1..3 |-> QueryProjects[o[i]]]
    /\ InitUI

NextQuery ==
    \/ \E text \in SearchInputs : SetSearch(text)
    \/ \E v \in {"All", "Health"} : SetFilterDept(v)
    \/ \E v \in {"All", "National"} : SetFilterRegion(v)
    \/ \E v \in {"All", "On Track"} : SetFilterStatus(v)
    \/ \E v \in {"All", "Infrastructure"} : SetFilterCategory(v)
    \/ ResetFilters
    \/ \E key \in BudgetSortKeys : HandleSortBudgets(key)
    \/ \E key \in ProjectSortKeys : HandleSortProjects(key)

SpecQuery == InitQuery /\ [][NextQuery]_vars

(***************************************************************************)
(* Specification of the compare set and the watchlist: the stores hold     *)
(* Budgets and Projects of the data model, whose identifiers are any       *)
(* distinct strings, and rows are toggled in and out of both sets.         *)
(***************************************************************************)
CompareBudgets == <<
    [id |-> "b1", department |-> "Health", category |-> "Public Services",
     allocated |-> 100, spent |-> 40, region |-> "National", lastUpdated |-> 0],
    [id |-> "c1", department |-> "Transport", category |-> "Infrastructure",
     allocated |-> 60, spent |-> 40, region |-> "National", lastUpdated |-> 0] >>

CompareProjects == <<
    [id |-> "p1", name |-> "Rural Clinic Expansion", department |-> "Health",
     budget |-> 120, spent |-> 46, status |-> "On Track", progress |-> 39,
     region |-> "Rural", updatedAt |-> 0, risk |-> 25],
    [id |-> "p2", name |-> "Highway Modernization", department |-> "Transport",
     budget |-> 300, spent |-> 46, status |-> "Delayed", progress |-> 52,
     region |-> "National", updatedAt |-> 0, risk |-> 55] >>

InitCompare ==
    /\ budgets \in {<<CompareBudgets[1]>>, <<CompareBudgets[2]>>, CompareBudgets,
                    <<CompareBudgets[2], CompareBudgets[1]>>}
    /\ projects \in {<<CompareProjects[1]>>, CompareProjects}
    /\ InitUI

NextCompare ==
    \/ \E i \in 1..Len(budgets) : AddOrRemoveCompare(budgets[i].id)
    \/ \E i \in 1..Len(projects) : AddOrRemoveCompare(projects[i].id)
    \/ ClearCompare
    \/ \E i \in 1..Len(budgets) : ToggleWatch(WatchId("budget-", budgets[i].id))
    \/ \E i \in 1..Len(projects) : ToggleWatch(WatchId("project-", projects[i].id))

SpecCompare == InitCompare /\ [][NextCompare]_vars

(***************************************************************************)
(* Specification of whole ticks: the store holds two Projects and two      *)
(* Budgets of the data model, stamped before the ticker's clock, and each  *)
(* tick draws for every record of both collections.                        *)
(***************************************************************************)
TickProjects(id) ==
    {p \in [id : {id}, name : {"Rural Clinic Expansion"}, department : {"Health"},
            budget : {100}, spent : {95}, status : {"Delayed", "At Risk", "Completed"},
            progress : {97, 100}, region : {"Rural"}, updatedAt : {0}, risk : {89}] :
        p.status = "Completed" => p.progress >= 100}

TickBudgets(id) ==
    [id : {id}, department : {"Health"}, category : {"Public Services"},
     allocated : {40}, spent : {44, 46}, region : {"National"}, lastUpdated : {0}]

InitTick ==
    /\ \E p \in TickProjects("p1"), q \in TickProjects("p2") : projects = <<p, q>>
    /\ \E b \in TickBudgets("b1"), c \in TickBudgets("b2") : budgets = <<b, c>>
    /\ timerActive = TRUE
    /\ now = MaxClock
    /\ showReportModal = FALSE
    /\ showReportConfirmation = FALSE
    /\ reportDraft = DefaultDraft
    /\ reports = <<>>
    /\ InitView
    /\ InitAmbient

NextTick == Tick \/ Unmount

SpecTick == InitTick /\ [][NextTick]_vars

(***************************************************************************)
(* Specification of the writers of the store: every kind of operation of   *)
(* the page, the export included, runs next to the ticker on a store of    *)
(* one Budget and one Project of the data model with their seeded          *)
(* expenditures.                                                           *)
(***************************************************************************)
InitWriters ==
    /\ \E b \in TickBudgets("b1") : b.spent < SpendCap(b) /\ budgets = <<b>>
    /\ \E p \in TickProjects("p1") :
         p.status = "Delayed" /\ p.progress < 100 /\ projects = <<p>>
    /\ InitUI

NextWriters ==
    \/ Tick
    \/ OpenReportModal(BudgetFlagDefaults)
    \/ EditDraft("description", "Overspend")
    \/ SubmitReport
    \/ reports = <<>> /\ ConfirmSubmitReport
    \/ CancelSubmitReport
    \/ \E i \in 1..Len(budgets) : AddOrRemoveCompare(budgets[i].id)
    \/ \E i \in 1..Len(projects) : ToggleWatch(WatchId("project-", projects[i].id))
    \/ \E text \in {"", "heal"} : SetSearch(text)
    \/ \E v \in {"All", "Rural"} : SetFilterRegion(v)
    \/ HandleSortProjects("spent")
    \/ ExportData("budgets")

SpecWriters == InitWriters /\ [][NextWriters]_vars

(***************************************************************************)
(* Specification of the expenditure view: the ledger holds two             *)
(* Expenditures of the data model, whose optional projectId is missing,    *)
(* empty, the id of a stored Project or the id of no stored Project, and   *)
(* the search and the filters of the page change.                          *)
(***************************************************************************)
LedgerProjects == <<
    [id |-> "p1", name |-> "Rural Clinic Expansion", department |-> "Health",
     budget |-> 120, spent |-> 46, status |-> "On Track", progress |-> 39,
     region |-> "Rural", updatedAt |-> 0, risk |-> 25],
    [id |-> "p2", name |-> "Highway Modernization", department |-> "Transport",
     budget |-> 300, spent |-> 46, status |-> "Delayed", progress |-> 52,
     region |-> "National", updatedAt |-> 0, risk |-> 55] >>

LedgerExpenditures(id) ==
    [id : {id}, projectId : {Absent, "", "p1", "p2", "p9"},
     department : {"Health", "Transport"}, description : {"Labor expense"},
     amount : {20000}, date : {1, 2}, category : {"Labor"}]

InitLedger ==
    /\ projects = LedgerProjects
    /\ budgets = <<>>
    /\ \E e \in LedgerExpenditures("e1"), f \in LedgerExpenditures("e2") :
         expenditures = <<e, f>>
    /\ timerActive = TRUE
    /\ now = 0
    /\ showReportModal = FALSE
    /\ showReportConfirmation = FALSE
    /\ reportDraft = DefaultDraft
    /\ reports = <<>>
    /\ InitView
    /\ callbackAt = "idle"
    /\ lastExport = NoExport
    /\ preferences = DefaultPreferences
    /\ events = PushEvent(<<>>, DefaultPreferences, "page_view", 0)

NextLedger ==
    \/ \E text \in {"", "lab"} : SetSearch(text)
    \/ \E v \in {"All", "Health"} : SetFilterDept(v)
    \/ \E v \in {"All", "Rural", "National"} : SetFilterRegion(v)
    \/ \E v \in {"All", "Labor"} : SetFilterCategory(v)

SpecLedger == InitLedger /\ [][NextLedger]_vars

(***************************************************************************)
(* Specification of one run of the interval callback at a time.  The       *)
(* callback calls setProjects and then setBudgets.  Whether React applies  *)
(* the two updates in one render (automatic batching) or renders after     *)
(* each call (a timer callback without batching) depends on the React      *)
(* version and root the page is mounted with, which the source does not    *)
(* fix, so both happen: Tick is the batched run, TickSetProjects followed  *)
(* by TickSetBudgets the run that renders in between.                      *)
(***************************************************************************)
InitOrder ==
    /\ \E p \in TickProjects("p1") : projects = <<p>>
    /\ \E b \in TickBudgets("b1"), c \in TickBudgets("b2") : budgets = <<b, c>>
    /\ InitUI

NextOrder == Tick \/ TickSetProjects \/ TickSetBudgets \/ Unmount

SpecOrder == InitOrder /\ [][NextOrder]_vars

(***************************************************************************)
(* Specification of the analytics singleton: it is constructed with the    *)
(* default preferences or with preferences saved by an earlier session,    *)
(* events are tracked, the preferences are changed one key at a time, the  *)
(* data is cleared and the clock advances.                                 *)
(***************************************************************************)
RetentionInputs == {0, 1, 30}

\* what loadPreferences returns: the default or what savePreferences wrote earlier
LoadedPreferences ==
    {DefaultPreferences} \cup [analyticsEnabled : BOOLEAN, dataRetentionDays : RetentionInputs]

\* the Partial<UserPreferences> values handed to setPreferences
PreferenceInputs ==
    [{"analyticsEnabled"} -> BOOLEAN] \cup [{"dataRetentionDays"} -> RetentionInputs]

EventTypes == {"page_view", "search"}

\* new PrivacyAnalytics(): events = [], the loaded preferences, cleanupOldEvents()
InitAnalytics ==
    /\ preferences \in LoadedPreferences
    /\ events = cleanupOldEvents(<<>>, preferences, 0)
    /\ now = 0
    /\ projects = <<>>
    /\ budgets = <<>>
    /\ expenditures = <<>>
    /\ callbackAt = "idle"
    /\ lastExport = NoExport
    /\ timerActive = TRUE
    /\ showReportModal = FALSE
    /\ showReportConfirmation = FALSE
    /\ reportDraft = DefaultDraft
    /\ reports = <<>>
    /\ InitView

NextAnalytics ==
    \/ \E type \in EventTypes : Track(type)
    \/ \E partial \in PreferenceInputs : SetPreferences(partial)
    \/ ClearAllData
    \/ AdvanceClock

SpecAnalytics == InitAnalytics /\ [][NextAnalytics]_vars

(***************************************************************************)
(* Properties                                                              *)
(***************************************************************************)
NonEmpty(v) == v # Absent /\ v # ""

\* C1: in every state reachable from the seeded projects by ticks, every Project has
\* 0 <= progress <= 100.
C1_ProgressInRange ==
    \A i \in 1..Len(projects) : 0 <= projects[i].progress /\ projects[i].progress <= 100

\* a seeded project has been ticked up to the ceiling
C1_Witness ==
    \E i \in 1..Len(projects) : projects[i].progress = 100

\* C2: in every state reachable from the seeded projects by ticks, every Project has
\* 0 <= risk <= 90, whatever its status.
C2_RiskInRange ==
    \A i \in 1..Len(projects) : 0 <= projects[i].risk /\ projects[i].risk <= 90

\* C3: in every reachable state a Project whose status is Completed has progress >= 100.
C3_CompletedOnlyAtFullProgress ==
    \A i \in 1..Len(projects) :
        projects[i].status = "Completed" => projects[i].progress >= 100

\* a tick has completed a seeded project
C3_Witness ==
    \E i \in 1..Len(projects) : projects[i].status = "Completed"

\* C4 (as stated): for every Budget the data model allows, after any number of ticks
\* spent <= allocated * 1.15.
C4_SpentWithinCap ==
    \A i \in 1..Len(budgets) : 100 * budgets[i].spent <= 115 * budgets[i].allocated

\* C4 (amended): a Budget whose spent is at most allocated * 1.15 before a tick has
\* spent at most allocated * 1.15 after it, so a Budget that starts within the cap stays
\* within it after any number of ticks.
C4_CapPreserved ==
    [][\A i \in 1..Len(budgets) :
          100 * budgets[i].spent <= 115 * budgets[i].allocated
              => 100 * budgets'[i].spent <= 115 * budgets'[i].allocated]_vars

\* a budget that started at 113 of 100 allocated has been ticked to 114
C4_Witness ==
    \E i \in 1..Len(budgets) : budgets[i].allocated = 100 /\ budgets[i].spent = 114

\* C5: for any Budget the data model allows, spent after a tick is never smaller than
\* spent before that tick.
C5_BudgetSpentNonDecreasing ==
    [][\A i \in 1..Len(budgets) : budgets'[i].spent >= budgets[i].spent]_vars

\* C6: for any Project (budget > 0, spent >= 0, spent possibly above the budget), spent
\* after a tick is never smaller than spent before that tick.
C6_ProjectSpentNonDecreasing ==
    [][\A i \in 1..Len(projects) : projects'[i].spent >= projects[i].spent]_vars

\* C7: once the ticker is cancelled it stays cancelled, and the Budgets and Projects
\* collections never change again.
C7_NoUpdateAfterCancel ==
    [][~timerActive =>
          /\ ~timerActive'
          /\ projects' = projects
          /\ budgets' = budgets]_vars

\* the ticker was cancelled after it had updated the tracked budget
C7_Witness ==
    /\ ~timerActive
    /\ \E i \in 1..Len(budgets) : budgets[i].allocated = 100 /\ budgets[i].spent = 114

\* C8: submitReport opens the confirmation if and only if the draft's subject and
\* description are both non-empty; when either is empty the workflow state, the draft and
\* the Reports list are left unchanged.
C8_SubmitNeedsRequiredFields ==
    [][SubmitReport =>
          IF NonEmpty(reportDraft.subject) /\ NonEmpty(reportDraft.description)
          THEN showReportConfirmation'
          ELSE /\ showReportConfirmation' = showReportConfirmation
               /\ reportDraft' = reportDraft
               /\ reports' = reports]_vars

\* a complete draft is waiting for its confirmation
C8_Witness ==
    /\ showReportConfirmation
    /\ NonEmpty(reportDraft.subject)
    /\ NonEmpty(reportDraft.description)
    /\ reports = <<>>

\* C9: confirmSubmitReport adds exactly one Report, with status Submitted and the
\* draft's fields, in front of the earlier reports, closes the confirmation, and resets
\* the draft to exactly {severity: Medium, type: Spending Concern}.
C9_ConfirmStoresDraft ==
    [][ConfirmSubmitReport =>
          /\ Len(reports') = Len(reports) + 1
          /\ Tail(reports') = reports
          /\ Head(reports').status = "Submitted"
          /\ Head(reports').type = reportDraft.type
          /\ Head(reports').subject = reportDraft.subject
          /\ Head(reports').description = reportDraft.description
          /\ Head(reports').department = reportDraft.department
          /\ Head(reports').projectId = reportDraft.projectId
          /\ Head(reports').severity = reportDraft.severity
          /\ Head(reports').reference = reportDraft.reference
          /\ ~showReportConfirmation'
          /\ reportDraft' = [type |-> "Spending Concern", severity |-> "Medium",
                             subject |-> Absent, description |-> Absent,
                             department |-> Absent, projectId |-> Absent,
                             reference |-> Absent]]_vars

\* a draft with edited optional fields was confirmed on top of the stored report
C9_Witness ==
    /\ Len(reports) = 2
    /\ reports[2] = StoredReport
    /\ reports[1].type = "Fraud Suspicion"
    /\ reports[1].severity = "High"
    /\ reports[1].projectId = "p1"
    /\ reports[1].reference = "REF-1"
    /\ ~showReportConfirmation
    /\ reportDraft = DefaultDraft

\* C10: every Report in the store has a non-empty subject and a non-empty description.
C10_StoredReportsComplete ==
    \A i \in 1..Len(reports) :
        NonEmpty(reports[i].subject) /\ NonEmpty(reports[i].description)

\* C11: openReportModal(defaults), called while drafting or while a confirmation is
\* pending, leaves the workflow in Drafting (the form shown, no confirmation pending) and
\* the draft equal to {severity: Medium, type: Spending Concern} overridden by the
\* defaults, with no field carried over from the previous draft.
C11_OpenEntersDrafting ==
    [][\A d \in {NoDefaults, BudgetFlagDefaults} :
          OpenReportModal(d) =>
              /\ showReportModal'
              /\ ~showReportConfirmation'
              /\ reportDraft'.type = IF d.type = Unset THEN "Spending Concern" ELSE d.type
              /\ reportDraft'.severity = IF d.severity = Unset THEN "Medium" ELSE d.severity
              /\ reportDraft'.subject = IF d.subject = Unset THEN Absent ELSE d.subject
              /\ reportDraft'.description =
                     IF d.description = Unset THEN Absent ELSE d.description
              /\ reportDraft'.department =
                     IF d.department = Unset THEN Absent ELSE d.department
              /\ reportDraft'.projectId = IF d.projectId = Unset THEN Absent ELSE d.projectId
              /\ reportDraft'.reference =
                     IF d.reference = Unset THEN Absent ELSE d.reference]_vars

\* C12: cancelSubmitReport, taken while a confirmation is pending, returns the workflow
\* to Drafting (no confirmation pending), leaves every field of the draft as it was and
\* leaves the Reports list unchanged.
C12_CancelKeepsDraft ==
    [][CancelSubmitReport =>
          /\ showReportConfirmation
          /\ ~showReportConfirmation'
          /\ showReportModal' = showReportModal
          /\ \A f \in RequiredFields \cup OptionalFields : reportDraft'[f] = reportDraft[f]
          /\ reports' = reports]_vars

\* back in the form with the complete draft that was waiting for its confirmation
C12_Witness ==
    /\ showReportModal
    /\ ~showReportConfirmation
    /\ reportDraft.subject = "Budget Concern: Health"
    /\ reportDraft.description = "Overspend"
    /\ Len(reports) = 1

\* C13: the Reports list starts empty and is append-only: over every step (a tick, a
\* workflow step, a toggle, a search, filter or sort change) its length does not
\* decrease, and every stored report keeps all its field values and its position
\* relative to the other stored reports (the list only gains a report somewhere).
C13_ReportsAppendOnly ==
    /\ reports = <<>>
    /\ [][\/ reports' = reports
          \/ \E k \in 1..Len(reports') :
                 reports = SubSeq(reports', 1, k - 1) \o
                           SubSeq(reports', k + 1, Len(reports'))]_vars

\* two different reports are stored, the older one behind the newer one, after the
\* ticker, a toggle and the sort control have acted
C13_Witness ==
    /\ Len(reports) = 2
    /\ reports[2].description = "Overspend"
    /\ reports[1].description = Absent
    /\ compareSet = <<"b1">>
    /\ sortBudgets = [key |-> "spent", direction |-> "desc"]
    /\ \E i \in 1..Len(budgets) : budgets[i].allocated = 40 /\ budgets[i].spent = 46

\* C14: the identifiers of the stored Reports are pairwise distinct in every reachable
\* state, also when two confirmations happen at the same clock value.
C14_ReportIdsDistinct ==
    \A i, j \in 1..Len(reports) : i # j => reports[i].id # reports[j].id

\* C15: in every state of the page (budgets as the ticks leave them, reports as the
\* workflow stores them) transparencyIndex is an integer with
\* 0 <= transparencyIndex <= 100.
C15_IndexInRange ==
    /\ transparencyIndex.kind = "finite"
    /\ transparencyIndex.num % transparencyIndex.den = 0
    /\ 0 <= transparencyIndex.num
    /\ transparencyIndex.num <= 100 * transparencyIndex.den

\* two ticked budgets and a stored report: utilizations 62.5 and 115, deviations 2.5
\* and 55, norm 0.7125, resolution ratio 0, index round(42.75) = 43
C15_Witness ==
    /\ Len(reports) >= 1
    /\ Len(budgets) = 2
    /\ budgets[1].allocated = 40 /\ budgets[1].spent = 25
    /\ budgets[2].allocated = 100 /\ budgets[2].spent = 115
    /\ transparencyIndex = Finite(43, 1)

\* C16: when a Budget has allocated <= 0 the aggregator reports its utilization, the
\* overall utilization and the transparency index without producing NaN or an infinity:
\* the per-budget utilization is a "not computable" sentinel.
C16_UtilizationGuarded ==
    (\E i \in 1..Len(budgets) : budgets[i].allocated <= 0) =>
        /\ \A i \in 1..Len(budgets) :
               budgets[i].allocated <= 0 => Utilization(budgets[i]).kind = "not computable"
        /\ overallUtilization.kind \in {"finite", "not computable"}
        /\ transparencyIndex.kind \in {"finite", "not computable"}

\* C17: the query pipeline is idempotent: for the stored Budgets and Projects and the
\* current search string, filters, sort key and direction, running the pipeline on its
\* own output gives the same records in the same order.
C17_PipelineIdempotent ==
    /\ BudgetPipeline(filteredBudgets) = filteredBudgets
    /\ ProjectPipeline(filteredProjects) = filteredProjects

\* a search in capitals and a descending sort on a key with ties have selected and
\* ordered two of the three Budgets and two of the three Projects
C17_Witness ==
    /\ search = "HEAL"
    /\ sortBudgets = [key |-> "allocated", direction |-> "desc"]
    /\ sortProjects = [key |-> "budget", direction |-> "desc"]
    /\ Len(filteredBudgets) = 2
    /\ filteredBudgets[1].id = "b2"
    /\ filteredBudgets[2].id = "b1"
    /\ Len(filteredProjects) = 2
    /\ filteredProjects[1].id = "p3"

\* C18: sorting by a key is stable in both directions: the sorted result holds the
\* filtered records, records with equal keys keep their input order in both directions,
\* the ascending result is ordered by non-decreasing key, and the descending result has
\* every two records of unequal key in the opposite order of the ascending result.
C18_SortStable ==
    LET Pos(s, x) == CHOOSE i \in 1..Len(s) : s[i] = x
        Tied(x, y, key) == x[key] = y[key]
        KeyLeq(x, y, key) ==
            IF IsNumber(x, key) THEN x[key] <= y[key]
            ELSE LocaleCompare(Chars(x[key]), Chars(y[key])) <= 0
        Stable(f, sort, result) ==
            LET up == IF sort.direction = "asc" THEN result
                      ELSE SortData(f, NextSort(sort, sort.key))
                down == IF sort.direction = "desc" THEN result
                        ELSE SortData(f, NextSort(sort, sort.key))
            IN  /\ Len(up) = Len(f)
                /\ Len(down) = Len(f)
                /\ \A i \in 1..Len(f) :
                       (\E j \in 1..Len(up) : up[j] = f[i]) /\ (\E j \in 1..Len(down) : down[j] = f[i])
                /\ \A i, j \in 1..Len(up) : i < j => KeyLeq(up[i], up[j], sort.key)
                /\ \A i, j \in 1..Len(f) :
                       i < j =>
                           IF Tied(f[i], f[j], sort.key)
                           THEN /\ Pos(up, f[i]) < Pos(up, f[j])
                                /\ Pos(down, f[i]) < Pos(down, f[j])
                           ELSE Pos(up, f[i]) < Pos(up, f[j])
                                    <=> Pos(down, f[j]) < Pos(down, f[i])
    IN  /\ sortBudgets.key # NoKey =>
               Stable(BudgetFilters(budgets), sortBudgets, filteredBudgets)
        /\ sortProjects.key # NoKey =>
               Stable(ProjectFilters(projects), sortProjects, filteredProjects)

\* the Budgets sorted by spent, descending: the larger amount first, then the two
\* Budgets that spent the same in their stored order (b3 is stored before b1); the
\* Projects sorted by name, descending
C18_Witness ==
    /\ sortBudgets = [key |-> "spent", direction |-> "desc"]
    /\ sortProjects = [key |-> "name", direction |-> "desc"]
    /\ Len(filteredBudgets) = 3
    /\ budgets[1].id = "b3"
    /\ filteredBudgets[1].id = "b2"
    /\ filteredBudgets[2].id = "b3"
    /\ filteredBudgets[3].id = "b1"
    /\ Len(filteredProjects) = 3
    /\ filteredProjects[1].id = "p3"

\* C19: toggle is its own inverse on both identifier sets: addOrRemoveCompare(id) and
\* toggleWatch(id) add id to their set when it is absent and remove it when it is
\* present, touch no other member, and a second toggle of the same id gives back the
\* set as it was.
C19_ToggleInverse ==
    [][/\ \A id \in Members(compareSet) \cup Members(compareSet') :
              AddOrRemoveCompare(id) =>
                  /\ Members(compareSet') =
                         IF id \in Members(compareSet)
                         THEN Members(compareSet) \ {id}
                         ELSE Members(compareSet) \cup {id}
                  /\ Len(compareSet') = Cardinality(Members(compareSet'))
                  /\ Members(Toggle(compareSet', id)) = Members(compareSet)
       /\ \A id \in Members(watchlist) \cup Members(watchlist') :
              ToggleWatch(id) =>
                  /\ Members(watchlist') =
                         IF id \in Members(watchlist)
                         THEN Members(watchlist) \ {id}
                         ELSE Members(watchlist) \cup {id}
                  /\ Len(watchlist') = Cardinality(Members(watchlist'))
                  /\ Members(Toggle(watchlist', id)) = Members(watchlist)]_vars

\* rows have been toggled in and out: two Budgets were selected for comparison and the
\* first one taken out again, a Budget and a Project are watched
C19_Witness ==
    /\ Len(budgets) = 2
    /\ compareSet = <<budgets[2].id>>
    /\ Members(watchlist) = {WatchId("budget-", budgets[1].id), WatchId("project-", "p1")}

C21_TickFrame ==
    [][(projects' # projects \/ budgets' # budgets) =>
        /\ Len(projects') = Len(projects)
        /\ Len(budgets') = Len(budgets)
        /\ \A i \in 1..Len(projects) :
             /\ projects'[i].id = projects[i].id
             /\ \A k \in DOMAIN projects[i] \ {"progress", "spent", "status", "risk", "updatedAt"} :
                  projects'[i][k] = projects[i][k]
             /\ \A d \in ProjectDraws(projects[i]) :
                  ~d.sel => TickProject(projects[i], d, now) = projects[i]
        /\ \A i \in 1..Len(budgets) :
             /\ budgets'[i].id = budgets[i].id
             /\ \A k \in DOMAIN budgets[i] \ {"spent", "lastUpdated"} :
                  budgets'[i][k] = budgets[i][k]
             /\ \A d \in BudgetDrawsOf(budgets[i]) :
                  ~d.sel => TickBudget(budgets[i], d, now) = budgets[i]]_vars

\* ticks have updated the first project and the second budget and passed over the
\* second project and the first budget
C21_Witness ==
    /\ Len(projects) = 2 /\ Len(budgets) = 2
    /\ projects[1].updatedAt > 0 /\ projects[2].updatedAt = 0
    /\ budgets[1].lastUpdated = 0 /\ budgets[2].lastUpdated > 0

\* C22: a step that is not a tick of the Simulation Ticker leaves Budgets and
\* Projects as they are, order included, and no step at all changes Expenditures.
C22_TickerOnlyWriter ==
    [][/\ Tick \/ (projects' = projects /\ budgets' = budgets)
       /\ expenditures' = expenditures]_vars

\* every kind of operation has run: a report is stored, the record is compared and
\* watched, the view is searched, filtered and sorted, a file was exported, and the
\* ticker has written both collections
C22_Witness ==
    /\ reports # <<>> /\ showReportModal /\ reportDraft.description = "Overspend"
    /\ compareSet # <<>> /\ watchlist # <<>>
    /\ search # "" /\ filterRegion # "All" /\ sortProjects.key # NoKey
    /\ lastExport.download = "budgets"
    /\ budgets[1].spent > 44 /\ projects[1].progress = 100 /\ projects[1].spent > 95
    /\ Len(expenditures) = 3

\* C23: while no sort key is set, the filtered view of Budgets (of Projects) is the
\* stored collection, in stored order, restricted to the records that hold the
\* search string, whatever the case, in department or category (in name or
\* department) and that equal every filter whose value is not "All".
C23_FilteredSubsequence ==
    LET Holds(text, part) ==
            \E i \in 0..(Len(text) - Len(part)) :
                \A j \in 1..Len(part) : LowerChar(text[i + j]) = LowerChar(part[j])
        Passes(value, filter) == filter = "All" \/ value = filter
        KeepBudget(b) ==
            /\ Holds(Chars(b.department), Chars(search)) \/ Holds(Chars(b.category), Chars(search))
            /\ Passes(b.department, filterDept)
            /\ Passes(b.region, filterRegion)
            /\ Passes(b.category, filterCategory)
        KeepProject(p) ==
            /\ Holds(Chars(p.name), Chars(search)) \/ Holds(Chars(p.department), Chars(search))
            /\ Passes(p.department, filterDept)
            /\ Passes(p.region, filterRegion)
            /\ Passes(p.status, filterStatus)
    IN  /\ sortBudgets.key = NoKey => filteredBudgets = SelectSeq(budgets, KeepBudget)
        /\ sortProjects.key = NoKey => filteredProjects = SelectSeq(projects, KeepProject)

\* a search inside a word and a filter are set, no sort key is, and both views keep
\* some records and drop others
C23_Witness ==
    /\ search = "in" /\ filterDept = "Health"
    /\ sortBudgets.key = NoKey /\ sortProjects.key = NoKey
    /\ filteredBudgets # <<>> /\ Len(filteredBudgets) < Len(budgets)
    /\ filteredProjects # <<>> /\ Len(filteredProjects) < Len(projects)

\* C24: under a region filter other than "All", an Expenditure that passes the
\* search and the other filters is in the view exactly when its projectId is
\* missing or empty, or is the id of a stored Project of that region; one whose
\* projectId is the id of no stored Project has no project to match the region and
\* is left out, and the view is computed all the same.
C24_RegionFilter ==
    LET view == {filteredExpenditures[i] : i \in 1..Len(filteredExpenditures)}
        Holds(text, part) ==
            \E i \in 0..(Len(text) - Len(part)) :
                \A j \in 1..Len(part) : LowerChar(text[i + j]) = LowerChar(part[j])
        PassesOthers(e) ==
            /\ Holds(Chars(e.description), Chars(search)) \/ Holds(Chars(e.department), Chars(search))
            /\ filterDept = "All" \/ e.department = filterDept
            /\ filterCategory = "All" \/ e.category = filterCategory
        NoReference(e) == e.projectId = Absent \/ e.projectId = ""
        InRegion(e) ==
            \E i \in 1..Len(projects) :
                projects[i].id = e.projectId /\ projects[i].region = filterRegion
    IN  filterRegion # "All" =>
            \A i \in 1..Len(expenditures) :
                expenditures[i] \in view <=>
                    PassesOthers(expenditures[i])
                        /\ (NoReference(expenditures[i]) \/ InRegion(expenditures[i]))

\* under the filter "Rural" the ledger holds an entry without a project, which is
\* shown, and an entry of a project that is not stored, which is not
C24_Witness ==
    /\ filterRegion = "Rural"
    /\ expenditures[1].projectId = Absent
    /\ expenditures[2].projectId = "p9"
    /\ filteredExpenditures = <<expenditures[1]>>

\* C25: when a tick updates a Project with the increment inc, the status is
\* Completed afterwards exactly when progress + inc >= 100, and the stored progress
\* is then 100; otherwise the status stays what it was.  So the only status a tick
\* ever writes is Completed, and it writes it only together with progress 100.
C25_CompletedAtFullProgress ==
    [][\A i \in 1..Len(projects) :
          /\ \A d \in ProjectDraws(projects[i]) :
               d.sel /\ projects[i].progress < 100 =>
                 LET after == TickProject(projects[i], d, now)
                 IN  /\ after.status = "Completed" <=> projects[i].progress + d.inc >= 100
                     /\ after.status = "Completed" => after.progress = 100
                     /\ after.status # "Completed" => after.status = projects[i].status
          /\ projects'[i].status # projects[i].status =>
               projects'[i].status = "Completed" /\ projects'[i].progress = 100]_vars

\* a tick has completed a Project that was stored below 100
C25_Witness ==
    /\ projects # <<>>
    /\ projects[1].status = "Completed" /\ projects[1].progress = 100
    /\ projects[1].updatedAt > 0

\* C26: the Reports list changes only in a confirmSubmitReport step, and that step
\* is taken only while the confirmation is shown (PendingConfirmation), never in
\* Drafting; the confirmation comes to be shown only by a submitReport whose draft
\* passes the validation.  Opening the form, editing, submitting, cancelling and
\* ticks leave the list as it is.
C26_ReportsOnlyByConfirm ==
    [][/\ reports' # reports => showReportConfirmation /\ ConfirmSubmitReport
       /\ ~showReportConfirmation => ~ConfirmSubmitReport
       /\ ~showReportConfirmation /\ showReportConfirmation' =>
            SubmitReport /\ SubmitAllowed(reportDraft)]_vars

\* a report was stored by a confirmation, the form was opened again, and a second
\* valid draft is waiting for its confirmation
C26_Witness ==
    /\ Len(reports) = 1
    /\ showReportModal /\ showReportConfirmation
    /\ SubmitAllowed(reportDraft)

\* C27: in a tick the Budgets are replaced first and the Projects second, each in
\* one step: the first replacement of a run of the callback that is rendered on
\* its own leaves the Projects as they were, and a state between the two
\* replacements holds the Budgets of this tick next to the Projects of the last.
C27_BudgetsReplacedFirst ==
    [][callbackAt = "idle" /\ callbackAt' # "idle" =>
          projects' = projects]_vars

\* C28: a Project whose progress has reached 100 is returned by every later tick
\* with all its fields as they were, whatever the draws, and below 100 the
\* progress of a Project never goes down from one tick to the next.
C28_FullProgressTerminal ==
    [][\A i \in 1..Len(projects) :
          /\ projects[i].progress >= 100 =>
               /\ projects'[i] = projects[i]
               /\ \A d \in ProjectDraws(projects[i]) :
                    TickProject(projects[i], d, now) = projects[i]
          /\ projects'[i].progress >= projects[i].progress]_vars

\* a tick has taken a Project to 100 and the ticker is still running on it
C28_Witness ==
    /\ projects # <<>>
    /\ projects[1].progress = 100 /\ projects[1].updatedAt > 0
    /\ timerActive

\* C29: every stored Report has the status Submitted, so resolutionRatio is 1/2
\* while no Report is stored and 0 once one is.  transparencyIndex is then
\* round(60 * norm + 20) without a stored Report and round(60 * norm) with one, where
\* norm depends on the Budgets alone: the second value is at most 60 and never
\* above the first, so a confirmation that leaves the Budgets as they are never
\* raises transparencyIndex.
C29_ReportsStaySubmitted ==
    LET withReports == MathRound(Times(norm, 60))
        withoutReports == MathRound(Plus(Times(norm, 60), Finite(20, 1)))
    IN  /\ \A i \in 1..Len(reports) : reports[i].status = "Submitted"
        /\ resolutionRatio = IF reports = <<>> THEN Finite(1, 2) ELSE Finite(0, 1)
        /\ transparencyIndex = IF reports = <<>> THEN withoutReports ELSE withReports
        /\ withReports.kind = "finite" /\ withoutReports.kind = "finite"
        /\ withReports.num * withoutReports.den <= withoutReports.num * withReports.den
        /\ reports # <<>> => transparencyIndex.num <= 60 * transparencyIndex.den

\* reports are stored next to budgets at 110% and 120% of their allocations:
\* deviations 50 and 60 from the target 60, norm 0.45, and the index is 27 where it
\* was 47 before the first confirmation
C29_Witness ==
    /\ Len(reports) >= 1
    /\ Len(budgets) = 2
    /\ budgets[1].allocated = 40 /\ budgets[1].spent = 44
    /\ budgets[2].allocated = 100 /\ budgets[2].spent = 120
    /\ transparencyIndex = Finite(27, 1)

\* C30: while analytics is disabled the event list is empty: setPreferences empties
\* it when it disables analytics, and no track call adds to it until analytics is
\* enabled again.  While analytics is enabled the event list never holds more than
\* maxEvents events.
C30_OptOutKeepsNoEvents ==
    /\ ~preferences.analyticsEnabled => events = <<>>
    /\ Len(events) <= maxEvents

\* analytics is enabled and the event list is full, its events tracked on more than
\* one day
C30_Witness ==
    /\ preferences.analyticsEnabled
    /\ Len(events) = maxEvents
    /\ events[1].timestamp < events[Len(events)].timestamp
====
